---- MODULE Spec2Model ----
(***************************************************************************)
(* Model of weeklylink's main.py: one run of the pipeline                  *)
(*   construct -> fetch -> parse -> filter -> assemble -> confirm ->       *)
(*   clone -> mkdir -> write -> git config/add/commit/push -> report.      *)
(* Time is counted in units of 1/DayLen of a day.  Strings whose           *)
(* characters matter (timespan) are sequences of one-character tokens;     *)
(* the token "sup2" stands for the character SUPERSCRIPT TWO, which        *)
(* str.isdigit() accepts and int() rejects.                                *)
(***************************************************************************)
EXTENDS Integers, Sequences, FiniteSets, TLC

(* ------------------------------ bounds -------------------------------- *)
MaxItems == 2
MaxTime == 5
DayLen == 2

Times == 0..MaxTime
Nows == {MaxTime - 1}
Timespans == { <<"0">>, <<"1">>, <<"1", "0">>, <<"-", "1">>, << >>, <<"sup2">> }

VARIABLES
  rss_url,        \* "None" or "set"          (self.rss_url)
  rss_path,       \* "None" or "set"          (self.rss_path)
  timespan,       \* sequence of characters   (self.timespan)
  no_interactive, \* BOOLEAN                  (--no-interactive)
  now,            \* datetime.now() of this run
  pc,             \* position in main()
  rss,            \* result of fetch_rss()
  items,          \* main's local `items`
  post,           \* main's local `post`
  ws,             \* the temporary clone: [repo, parent, staged, commit]
  ws_index,       \* slug -> content of <tmp>/<path_to_post>/<slug>/index.md
  remote,         \* slug -> content of index.md in the blog repository
  effects,        \* the side effects performed so far, in order
  log,            \* the messages written by main
  error,          \* the exception that ended the run, or "None"
  exit_code       \* -1 while running, then the process exit status

vars == << rss_url, rss_path, timespan, no_interactive, now, pc, rss, items,
           post, ws, ws_index, remote, effects, log, error, exit_code >>

cfgvars == << rss_url, rss_path, timespan, no_interactive, now >>

(* ------------------------------ values -------------------------------- *)
NoneRss == [kind |-> "None", entries |-> << >>]
EmptyText == [kind |-> "empty", entries |-> << >>]
FeedText(es) == [kind |-> "feed", entries |-> es]

Entry(t) == [has_updated |-> TRUE, updated_parsed |-> t]
EntryWithoutDate == [has_updated |-> FALSE, updated_parsed |-> 0]
Entries == {Entry(t) : t \in Times} \cup {EntryWithoutDate}

RECURSIVE SeqsUpTo(_, _)
SeqsUpTo(S, n) ==
  IF n = 0 THEN { << >> }
  ELSE LET shorter == SeqsUpTo(S, n - 1)
       IN  shorter \cup { Append(s, e) : s \in shorter, e \in S }

Feeds == SeqsUpTo(Entries, MaxItems)

NoPost == [items |-> << >>, date |-> -1, by |-> "nobody"]
EarlierPost == [items |-> << >>, date |-> -1, by |-> "earlier run"]
NoFile == [items |-> << >>, date |-> -1, by |-> "no file"]
EmptyTree == << >>
NoWorkspace == [made |-> FALSE, repo |-> FALSE, parent |-> FALSE,
                staged |-> FALSE, commit |-> NoPost]

(* ----------------------- PostBuilder, pure parts ---------------------- *)
AsciiDigits == <<"0", "1", "2", "3", "4", "5", "6", "7", "8", "9">>

IsAsciiDigit(c) == \E i \in 1..Len(AsciiDigits) : AsciiDigits[i] = c

DigitValue(c) == (CHOOSE i \in 1..Len(AsciiDigits) : AsciiDigits[i] = c) - 1

\* isdigit without the non-empty requirement (all() over no characters)
isdigit_vacuous(s) == \A i \in 1..Len(s) : IsAsciiDigit(s[i]) \/ s[i] = "sup2"

\* str.isdigit(): non-empty and every character has the Unicode digit property
isdigit(s) == Len(s) > 0 /\ \A i \in 1..Len(s) : IsAsciiDigit(s[i]) \/ s[i] = "sup2"

\* int(s) succeeds on a non-empty string of decimal digits
IntParses(s) == Len(s) > 0 /\ \A i \in 1..Len(s) : IsAsciiDigit(s[i])

RECURSIVE int(_)
int(s) == IF Len(s) = 0 THEN 0
          ELSE 10 * int(SubSeq(s, 1, Len(s) - 1)) + DigitValue(s[Len(s)])

\* the day difference rounded up instead of down
days_ago_rounded_up(n, item) == (n - item.updated_parsed + DayLen - 1) \div DayLen

\* (datetime.now() - item_date).days : timedelta.days is the floor
days_ago(n, item) == (n - item.updated_parsed) \div DayLen

\* the test with the boundary day excluded
Skipped_at_boundary(d, window) == d >= window

\* the test of filter_items_by_days: `if days_ago > int(self.timespan): continue`
Skipped(d, window) == d > window

\* the loop of filter_items_by_days from index i on, matching_items = acc
RECURSIVE filter_loop(_, _, _, _, _)
filter_loop(its, i, acc, ts, n) ==
  IF i > Len(its) THEN [raised |-> "None", value |-> acc]
  ELSE IF ~its[i].has_updated THEN [raised |-> "AttributeError", value |-> << >>]
  ELSE IF ~IntParses(ts) THEN [raised |-> "ValueError", value |-> << >>]
  ELSE IF Skipped(days_ago(n, its[i]), int(ts))
       THEN filter_loop(its, i + 1, acc, ts, n)
       ELSE filter_loop(its, i + 1, Append(acc, its[i]), ts, n)

filter_items_by_days(its, ts, n) == filter_loop(its, 1, << >>, ts, n)

filter_items(its, ts, n) ==
  IF isdigit(ts) THEN filter_items_by_days(its, ts, n)
  ELSE [raised |-> "NotImplementedError", value |-> << >>]

\* template.render(items=items, date=datetime.now())
assemble_post(its, n) == [items |-> its, date |-> n, by |-> "this run"]

\* f"assorted-links-{datetime.now().strftime('%Y-%m-%d')}"
Slug(n) == <<"assorted-links", n \div DayLen>>

(* ------------------------------ main ---------------------------------- *)
\* The command line as click hands it to main, and the blog repository as the
\* run finds it: without today's post, or with the post an earlier run of the
\* same day pushed.
Init ==
  /\ rss_url \in {"None", "set"}
  /\ rss_path \in {"None", "set"}
  /\ timespan \in Timespans
  /\ no_interactive \in BOOLEAN
  /\ now \in Nows
  /\ pc = "construct"
  /\ rss = NoneRss
  /\ items = << >>
  /\ post = NoPost
  /\ ws = NoWorkspace
  /\ ws_index = EmptyTree
  /\ remote \in {EmptyTree, Slug(now) :> EarlierPost}
  /\ effects = << >>
  /\ log = << >>
  /\ error = "None"
  /\ exit_code = -1

\* main returns normally: the click command exits with status 0
Return(msg) ==
  /\ pc' = "done"
  /\ exit_code' = 0
  /\ log' = Append(log, msg)
  /\ error' = "None"

\* except Exception as e: logger.error(...); raise click.ClickException(str(e))
Raise(exc) ==
  /\ pc' = "done"
  /\ exit_code' = 1
  /\ log' = Append(log, "Error occurred")
  /\ error' = exc

\* a constructor that also rejects the case of both sources given
Construct_exactly_one ==
  /\ pc = "construct"
  /\ IF (rss_url = "None") = (rss_path = "None")
     THEN Raise("ValueError")
     ELSE pc' = "fetch" /\ UNCHANGED << log, error, exit_code >>
  /\ UNCHANGED << cfgvars, rss, items, post, ws, ws_index, remote, effects >>

\* PostBuilder.__init__
Construct ==
  /\ pc = "construct"
  /\ IF rss_url = "None" /\ rss_path = "None"
     THEN Raise("ValueError")
     ELSE pc' = "fetch" /\ UNCHANGED << log, error, exit_code >>
  /\ UNCHANGED << cfgvars, rss, items, post, ws, ws_index, remote, effects >>

\* fetch_rss -> fetch_rss_from_url
FetchFromUrl ==
  /\ pc = "fetch"
  /\ rss_url # "None"
  /\ \/ \E f \in Feeds : rss' = FeedText(f)
     \/ rss' = EmptyText
     \/ rss' = NoneRss            \* requests.RequestException: return None
  /\ pc' = "fetched"
  /\ effects' = Append(effects, [op |-> "fetch_rss_from_url", rc |-> 0])
  /\ UNCHANGED << cfgvars, items, post, ws, ws_index, remote, log, error, exit_code >>

\* fetch_rss -> fetch_rss_from_file
FetchFromFile ==
  /\ pc = "fetch"
  /\ rss_url = "None"
  /\ effects' = Append(effects, [op |-> "fetch_rss_from_file", rc |-> 0])
  /\ \/ /\ \/ \E f \in Feeds : rss' = FeedText(f)
           \/ rss' = EmptyText
        /\ pc' = "fetched"
        /\ UNCHANGED << log, error, exit_code >>
     \/ /\ Raise("OSError")       \* open() fails: nothing catches it in fetch
        /\ UNCHANGED rss
  /\ UNCHANGED << cfgvars, items, post, ws, ws_index, remote >>

\* if not rss: logger.error("Failed to fetch RSS content"); return
ReturnNoRss ==
  /\ pc = "fetched"
  /\ rss.kind \in {"None", "empty"}
  /\ Return("Failed to fetch RSS content")
  /\ UNCHANGED << cfgvars, rss, items, post, ws, ws_index, remote, effects >>

\* items = builder.parse_rss(rss)
ParseRss ==
  /\ pc = "fetched"
  /\ rss.kind = "feed"
  /\ items' = rss.entries
  /\ pc' = "filter"
  /\ effects' = Append(effects, [op |-> "parse", rc |-> 0])
  /\ UNCHANGED << cfgvars, rss, post, ws, ws_index, remote, log, error, exit_code >>

\* items = builder.filter_items(items)
FilterItems ==
  /\ pc = "filter"
  /\ LET r == filter_items(items, timespan, now)
     IN  IF r.raised = "None"
         THEN /\ items' = r.value
              /\ pc' = "filtered"
              /\ UNCHANGED << log, error, exit_code >>
         ELSE /\ Raise(r.raised)
              /\ UNCHANGED items
  /\ effects' = Append(effects, [op |-> "filter", rc |-> 0])
  /\ UNCHANGED << cfgvars, rss, post, ws, ws_index, remote >>

\* if len(items) == 0: logger.info("Nothing to post."); return
ReturnNothingToPost ==
  /\ pc = "filtered"
  /\ Len(items) = 0
  /\ Return("Nothing to post.")
  /\ UNCHANGED << cfgvars, rss, items, post, ws, ws_index, remote, effects >>

\* main without the `if len(items) == 0: return` short cut
AssemblePost_unguarded ==
  /\ pc = "filtered"
  /\ post' = [items |-> items, date |-> now, by |-> "this run"]
  /\ pc' = IF no_interactive THEN "publish" ELSE "confirm"
  /\ effects' = Append(effects, [op |-> "render", rc |-> 0])
  /\ UNCHANGED << cfgvars, rss, items, ws, ws_index, remote, log, error, exit_code >>

\* post = builder.assemble_post(items)
AssemblePost ==
  /\ pc = "filtered"
  /\ Len(items) # 0
  /\ post' = assemble_post(items, now)
  /\ pc' = IF no_interactive THEN "publish" ELSE "confirm"
  /\ effects' = Append(effects, [op |-> "render", rc |-> 0])
  /\ UNCHANGED << cfgvars, rss, items, ws, ws_index, remote, log, error, exit_code >>

\* main with the `return` after click.echo("Aborted.") missing
Confirm_without_return ==
  /\ pc = "confirm"
  /\ effects' = Append(effects, [op |-> "confirm", rc |-> 0])
  /\ \/ pc' = "publish" /\ UNCHANGED << log, error, exit_code >>
     \/ pc' = "publish" /\ log' = Append(log, "Aborted.")
                        /\ UNCHANGED << error, exit_code >>
     \/ Raise("Abort")
  /\ UNCHANGED << cfgvars, rss, items, post, ws, ws_index, remote >>

\* if not no_interactive: ... click.confirm(...)
Confirm ==
  /\ pc = "confirm"
  /\ effects' = Append(effects, [op |-> "confirm", rc |-> 0])
  /\ \/ pc' = "publish" /\ UNCHANGED << log, error, exit_code >>   \* yes
     \/ Return("Aborted.")                                         \* no
     \/ Raise("Abort")                          \* end of input at the prompt
  /\ UNCHANGED << cfgvars, rss, items, post, ws, ws_index, remote >>

(* ---------------------- push_post_to_blog_repo ------------------------ *)
\* exit statuses os.system can report for a git command run in workspace w;
\* push_post_to_blog_repo discards them: the next statement always runs
GitStatuses(w) == IF w.repo THEN {0, 1} ELSE {1}

\* tmp_dir = tempfile.mkdtemp(); os.system(f"git clone {self.blog_repo} {tmp_dir}")
Clone ==
  /\ pc = "publish"
  /\ \E rc \in {0, 1}, parent \in BOOLEAN, repo \in BOOLEAN :
       /\ rc = 0 => repo /\ (remote # EmptyTree => parent)
       /\ ws' = [made |-> TRUE, repo |-> repo, parent |-> parent,
                 staged |-> FALSE, commit |-> NoPost]
       /\ ws_index' = IF rc = 0 /\ parent THEN remote ELSE EmptyTree
       /\ effects' = Append(Append(effects, [op |-> "mkdtemp", rc |-> 0]),
                            [op |-> "clone", rc |-> rc])
       /\ pc' = "mkdir"
  /\ UNCHANGED << cfgvars, rss, items, post, remote, log, error, exit_code >>

\* os.makedirs(..., exist_ok=True) in place of os.mkdir
Mkdir_exist_ok ==
  /\ pc = "mkdir"
  /\ IF ~ws.parent
     THEN Raise("FileNotFoundError") /\ UNCHANGED << ws_index, effects >>
     ELSE /\ ws_index' = IF Slug(now) \in DOMAIN ws_index THEN ws_index
                         ELSE (Slug(now) :> NoFile) @@ ws_index
          /\ effects' = Append(effects, [op |-> "mkdir", rc |-> 0])
          /\ pc' = "write"
          /\ UNCHANGED << log, error, exit_code >>
  /\ UNCHANGED << cfgvars, rss, items, post, ws, remote >>

\* os.mkdir(os.path.join(tmp_dir, self.path_to_post, slug))
Mkdir ==
  /\ pc = "mkdir"
  /\ IF ~ws.parent
     THEN Raise("FileNotFoundError") /\ UNCHANGED << ws_index, effects >>
     ELSE IF Slug(now) \in DOMAIN ws_index
     THEN Raise("FileExistsError") /\ UNCHANGED << ws_index, effects >>
     ELSE /\ ws_index' = (Slug(now) :> NoFile) @@ ws_index
          /\ effects' = Append(effects, [op |-> "mkdir", rc |-> 0])
          /\ pc' = "write"
          /\ UNCHANGED << log, error, exit_code >>
  /\ UNCHANGED << cfgvars, rss, items, post, ws, remote >>

\* with open(os.path.join(..., slug, "index.md"), "w") as f: f.write(post)
WriteIndex ==
  /\ pc = "write"
  /\ ws_index' = [ws_index EXCEPT ![Slug(now)] = post]
  /\ effects' = Append(effects, [op |-> "write", rc |-> 0])
  /\ pc' = "config"
  /\ UNCHANGED << cfgvars, rss, items, post, ws, remote, log, error, exit_code >>

\* os.system(f"git -C {tmp_dir} config --local commit.gpgsign false")
GitConfig ==
  /\ pc = "config"
  /\ \E rc \in GitStatuses(ws) :
       /\ effects' = Append(effects, [op |-> "config", rc |-> rc])
       /\ pc' = "add"
  /\ UNCHANGED << cfgvars, rss, items, post, ws, ws_index, remote, log, error, exit_code >>

\* os.system(f"git -C {tmp_dir} add <index.md>")
GitAdd ==
  /\ pc = "add"
  /\ \E rc \in GitStatuses(ws) :
       /\ ws' = [ws EXCEPT !.staged = (rc = 0)]
       /\ effects' = Append(effects, [op |-> "add", rc |-> rc])
       /\ pc' = "commit"
  /\ UNCHANGED << cfgvars, rss, items, post, ws_index, remote, log, error, exit_code >>

\* os.system(f"git -C {tmp_dir} commit -m 'Add new assorted links.'")
GitCommit ==
  /\ pc = "commit"
  /\ \E rc \in GitStatuses(ws) :
       /\ rc = 0 => ws.staged            \* nothing staged: git commit exits 1
       /\ ws' = IF rc = 0
                THEN [ws EXCEPT !.staged = FALSE, !.commit = ws_index[Slug(now)]]
                ELSE ws
       /\ effects' = Append(effects, [op |-> "commit", rc |-> rc])
       /\ pc' = "push"
  /\ UNCHANGED << cfgvars, rss, items, post, ws_index, remote, log, error, exit_code >>

\* os.system(f"git -C {tmp_dir} push")
GitPush ==
  /\ pc = "push"
  /\ \E rc \in GitStatuses(ws) :
       /\ remote' = IF rc = 0 /\ ws.commit # NoPost
                    THEN (Slug(now) :> ws.commit) @@ remote
                    ELSE remote
       /\ effects' = Append(effects, [op |-> "push", rc |-> rc])
       /\ pc' = "pushed"
  /\ UNCHANGED << cfgvars, rss, items, post, ws, ws_index, log, error, exit_code >>

\* builder.push_post_to_blog_repo(post) returned:
\* logger.info("Successfully published new post")
LogSuccess ==
  /\ pc = "pushed"
  /\ Return("Successfully published new post")
  /\ UNCHANGED << cfgvars, rss, items, post, ws, ws_index, remote, effects >>

Next ==
  \/ Construct
  \/ FetchFromUrl
  \/ FetchFromFile
  \/ ReturnNoRss
  \/ ParseRss
  \/ FilterItems
  \/ ReturnNothingToPost
  \/ AssemblePost
  \/ Confirm
  \/ Clone
  \/ Mkdir
  \/ WriteIndex
  \/ GitConfig
  \/ GitAdd
  \/ GitCommit
  \/ GitPush
  \/ LogSuccess

Spec == Init /\ [][Next]_vars

(* ------------------------- vocabulary of the claims ------------------- *)
Ops == { effects[i].op : i \in 1..Len(effects) }
Logged == { log[i] : i \in 1..Len(log) }
PublishOps == {"mkdtemp", "clone", "mkdir", "write", "config", "add", "commit", "push"}
PipelineOps == {"parse", "filter", "render", "confirm"} \cup PublishOps
NoPublishEffect == Ops \cap PublishOps = {} /\ ws = NoWorkspace
ExitedWith(status) == pc = "done" /\ exit_code = status
BothUnset == rss_url = "None" /\ rss_path = "None"
BothSet == rss_url # "None" /\ rss_path # "None"
ConstructionFailed == pc = "done" /\ effects = << >> /\ error = "ValueError"
OpStatus(op) == { effects[i].rc : i \in { j \in 1..Len(effects) : effects[j].op = op } }

IsOrderedSelection(out, in, K) ==
  \E f \in [1..Len(out) -> 1..Len(in)] :
    /\ \A i, k \in 1..Len(out) : i < k => f[i] < f[k]
    /\ { f[i] : i \in 1..Len(out) } = K
    /\ \A i \in 1..Len(out) : out[i] = in[f[i]]

WithinWindow(in) ==
  { j \in 1..Len(in) : (now - in[j].updated_parsed) \div DayLen <= int(timespan) }

C2_FilterRetainsIffWithinWindow ==
  [][ pc = "filter" =>
        IF IntParses(timespan) /\ \A j \in 1..Len(items) : items[j].has_updated
        THEN pc' = "filtered" /\ IsOrderedSelection(items', items, WithinWindow(items))
        ELSE pc' = "filtered" => items = << >> /\ items' = << >> ]_vars

C2_Witness ==
  /\ pc = "filtered"
  /\ Len(rss.entries) = 2 /\ Len(items) = 1
  /\ items[1] = rss.entries[2]
  /\ (now - rss.entries[1].updated_parsed) \div DayLen = int(timespan) + 1

(* C3: when the timespan is not numeric (empty, or holding a character     *)
(* that is not a digit), filter_items raises NotImplementedError for every *)
(* input, the empty one included; it returns no list, and the run ends as  *)
(* a fatal error (exit status 1) with no publish step performed.           *)
DigitCharacters == { AsciiDigits[i] : i \in 1..Len(AsciiDigits) } \cup {"sup2"}
NonNumeric(ts) == ts = << >> \/ \E i \in 1..Len(ts) : ts[i] \notin DigitCharacters

FilterReturned == "filter" \in Ops /\ pc # "filter"
                    /\ error \notin {"NotImplementedError", "ValueError", "AttributeError"}

C4_EmptyFilteredSetShortCircuits ==
  FilterReturned /\ items = << >> =>
    /\ pc = "filtered" \/ (ExitedWith(0) /\ error = "None" /\ "Nothing to post." \in Logged)
    /\ NoPublishEffect
    /\ Ops \cap {"render", "confirm"} = {}

C4_Witness ==
  /\ ExitedWith(0) /\ "Nothing to post." \in Logged
  /\ Len(rss.entries) > 0 /\ items = << >>

(* C5: in interactive mode a publish side effect happens only after the    *)
(* operator confirmed; a declined confirmation ends the run with exit      *)
(* status 0 and no clone/write/commit/push; in non-interactive mode a      *)
(* rendered post goes to publish with no confirmation step.                *)
FirstIndex(op) == CHOOSE i \in 1..Len(effects) :
                    effects[i].op = op /\ \A j \in 1..(i - 1) : effects[j].op # op

C5_PublishOnlyAfterConfirmation ==
  /\ ~no_interactive /\ (Ops \cap PublishOps # {} \/ ws.made \/ pc = "publish") =>
       /\ "confirm" \in Ops /\ "Aborted." \notin Logged /\ error # "Abort"
       /\ \A i \in 1..Len(effects) :
            effects[i].op \in PublishOps => FirstIndex("confirm") < i
  /\ "Aborted." \in Logged => ExitedWith(0) /\ NoPublishEffect
  /\ no_interactive =>
       /\ "confirm" \notin Ops /\ pc # "confirm"
       /\ "render" \in Ops => pc = "publish" \/ "clone" \in Ops

C5_Witness ==
  /\ ~no_interactive /\ "Aborted." \in Logged /\ ExitedWith(0)
  /\ Len(items) > 0 /\ post.items = items

(* C6: when the slug directory already exists in the cloned workspace, the *)
(* publish fails at os.mkdir with a fatal error: the existing index.md is  *)
(* left as it is and no write, stage, commit or push is performed.         *)
C6_SlugCollisionIsFatal ==
  /\ [][ pc = "mkdir" /\ Slug(now) \in DOMAIN ws_index =>
           /\ pc' = "done" /\ exit_code' = 1 /\ error' = "FileExistsError"
           /\ ws_index' = ws_index /\ remote' = remote /\ effects' = effects ]_vars
  /\ [](error = "FileExistsError" =>
           /\ ExitedWith(1)
           /\ ws_index[Slug(now)] = EarlierPost /\ remote[Slug(now)] = EarlierPost
           /\ Ops \cap {"mkdir", "write", "config", "add", "commit", "push"} = {}
           /\ "Successfully published new post" \notin Logged)

C6_Witness ==
  /\ ExitedWith(1) /\ error = "FileExistsError"
  /\ OpStatus("clone") = {0} /\ ws_index[Slug(now)] = EarlierPost

(* C7 as stated: whenever the feed cannot be fetched, from a URL or from a *)
(* local file, the run ends with exit status 0 and performs no parse,      *)
(* filter, render or publish step.                                         *)
FetchFailed ==
  \/ "fetch_rss_from_url" \in Ops /\ rss.kind = "None"
  \/ "fetch_rss_from_file" \in Ops /\ error = "OSError"

C7_FetchFailureIsBenign ==
  FetchFailed /\ pc = "done" =>
    exit_code = 0 /\ Ops \cap PipelineOps = {} /\ ws = NoWorkspace

(* C8 as stated: a non-zero exit of git clone ends the publish step there: *)
(* no mkdir, write, stage, commit or push follows it, and the run ends     *)
(* with a non-zero exit status and no report of a successful publish.      *)
C8_FailedCloneIsFatal ==
  \A i \in 1..Len(effects) :
    effects[i].op = "clone" /\ effects[i].rc # 0 =>
      /\ i = Len(effects)
      /\ pc = "done" => exit_code = 1
      /\ "Successfully published new post" \notin Logged

(* C9 as stated: a non-zero exit of git add, git commit or git push is     *)
(* fatal: no later step runs after the failing one, and 'Successfully      *)
(* published new post' is reported only if all three exited with zero.     *)
C9_FailedGitStepIsFatal ==
  /\ \A i \in 1..Len(effects) :
       effects[i].op \in {"add", "commit", "push"} /\ effects[i].rc # 0 =>
         /\ i = Len(effects)
         /\ pc = "done" => exit_code = 1
  /\ "Successfully published new post" \in Logged =>
       OpStatus("add") = {0} /\ OpStatus("commit") = {0} /\ OpStatus("push") = {0}

(* C10 as stated: every entry of the filtered set has its timestamp in     *)
(* [now - window_days, now], counted in whole days: no entry dated in the  *)
(* future and no entry older than the window is retained.                  *)
C10_RetainedWithinClosedInterval ==
  pc = "filtered" =>
    \A i \in 1..Len(items) :
      /\ items[i].updated_parsed <= now
      /\ items[i].updated_parsed > now - (int(timespan) + 1) * DayLen

(* C10 amended: an entry is retained if and only if its timestamp is later *)
(* than now - (window_days + 1) days; so no entry with days_ago >          *)
(* window_days is retained, and every entry dated in the future (negative  *)
(* days_ago) is retained, for every window including 0.                    *)
C10_RetainedIffNotOlderThanWindow ==
  [][ pc = "filter" /\ pc' = "filtered" /\ items # << >> =>
        /\ \A t \in Times :
             (\E i \in 1..Len(items') : items'[i].updated_parsed = t)
               <=> (/\ \E j \in 1..Len(items) : items[j].updated_parsed = t
                    /\ t > now - (int(timespan) + 1) * DayLen)
        /\ \A j \in 1..Len(items) :
             items[j].updated_parsed > now => \E i \in 1..Len(items') : items'[i] = items[j]
    ]_vars

C10_Witness ==
  /\ pc = "filtered" /\ timespan = <<"0">>
  /\ Len(rss.entries) = 2 /\ Len(items) = 1
  /\ items[1].updated_parsed > now
  /\ rss.entries[2].updated_parsed = now - DayLen
====
